---- MODULE Spec2Model ----
(***************************************************************************)
(* Model of Header::parse (src/op/header.rs), the decoder of the 12-byte   *)
(* DNS message header of RFC 1035 4.1.1.                                   *)
(*                                                                         *)
(* Header::parse works on a `&mut Vec<u8>`.  It reads the 16-bit fields    *)
(* with util::parse_u16 and the two flag bytes with Vec::pop, which        *)
(* removes the LAST element of the vector.  One run of parse is modelled   *)
(* statement by statement; pc is the position in the function body.        *)
(*                                                                         *)
(* util::parse_u16, the u8 -> OpCode / ResponseCode conversions and the    *)
(* encode operation are not part of header.rs; they are modelled from the  *)
(* specification (sections 4.1, 4.2 and 4.3).                              *)
(***************************************************************************)
EXTENDS Integers, Sequences, FiniteSets

(* ------------------------------ bounds --------------------------------- *)

\* longest input buffer that is explored
MaxLen == 14

(* --------------------------- u8 arithmetic ----------------------------- *)

ByteVals == 0 .. 255

\* a & b on unsigned integers
RECURSIVE BitAnd(_, _)
BitAnd(a, b) ==
  IF a = 0 \/ b = 0 THEN 0
  ELSE (a % 2) * (b % 2) + 2 * BitAnd(a \div 2, b \div 2)

\* a | b on unsigned integers
RECURSIVE BitOr(_, _)
BitOr(a, b) ==
  IF a = 0 THEN b
  ELSE IF b = 0 THEN a
  ELSE (IF a % 2 = 1 \/ b % 2 = 1 THEN 1 ELSE 0) + 2 * BitOr(a \div 2, b \div 2)

\* a ^ b on unsigned integers
RECURSIVE BitXor(_, _)
BitXor(a, b) ==
  IF a = 0 THEN b
  ELSE IF b = 0 THEN a
  ELSE ((a + b) % 2) + 2 * BitXor(a \div 2, b \div 2)

RECURSIVE Pow2(_)
Pow2(k) == IF k = 0 THEN 1 ELSE 2 * Pow2(k - 1)

\* a >> k
Shr(a, k) == a \div Pow2(k)

\* (a << k) truncated to a u8
Shl8(a, k) == (a * Pow2(k)) % 256

(* ------------------------ external collaborators ----------------------- *)

\* util::parse_u16(data): the next two bytes at the front of the buffer,
\* high byte first; 0 when fewer than two bytes remain.  A short read
\* leaves nothing behind: section 7 treats missing bytes as zero, so a lone
\* trailing byte may not be handed to a later read as if it were the byte
\* of a later offset.
parse_u16(d) ==
  IF Len(d) >= 2
    THEN [val |-> d[1] * 256 + d[2], rest |-> SubSeq(d, 3, Len(d))]
    ELSE [val |-> 0, rest |-> << >>]

\* u8 -> OpCode: named variants for the allocated codes, unknown(code)
\* carrying the raw value for the others
OpCodeFrom(n) ==
  IF n = 0 THEN [tag |-> "Query", raw |-> 0]
  ELSE IF n = 1 THEN [tag |-> "IQuery", raw |-> 0]
  ELSE IF n = 2 THEN [tag |-> "Status", raw |-> 0]
  ELSE [tag |-> "Unknown", raw |-> n]

\* OpCode -> u8
OpCodeTo(v) ==
  IF v.tag = "Query" THEN 0
  ELSE IF v.tag = "IQuery" THEN 1
  ELSE IF v.tag = "Status" THEN 2
  ELSE v.raw

\* u8 -> ResponseCode
ResponseCodeFrom(n) ==
  IF n = 0 THEN [tag |-> "NoError", raw |-> 0]
  ELSE IF n = 1 THEN [tag |-> "FormErr", raw |-> 0]
  ELSE IF n = 2 THEN [tag |-> "ServFail", raw |-> 0]
  ELSE IF n = 3 THEN [tag |-> "NXDomain", raw |-> 0]
  ELSE IF n = 4 THEN [tag |-> "NotImp", raw |-> 0]
  ELSE IF n = 5 THEN [tag |-> "Refused", raw |-> 0]
  ELSE [tag |-> "Unknown", raw |-> n]

\* ResponseCode -> u8
ResponseCodeTo(v) ==
  IF v.tag = "NoError" THEN 0
  ELSE IF v.tag = "FormErr" THEN 1
  ELSE IF v.tag = "ServFail" THEN 2
  ELSE IF v.tag = "NXDomain" THEN 3
  ELSE IF v.tag = "NotImp" THEN 4
  ELSE IF v.tag = "Refused" THEN 5
  ELSE v.raw

(* --------------------------- Header::parse ----------------------------- *)

\* data.pop().unwrap_or(0) with 0xFF as the default
PopOrAllOnes(d) ==
  IF Len(d) = 0
    THEN [val |-> 255, rest |-> << >>]
    ELSE [val |-> d[Len(d)], rest |-> SubSeq(d, 1, Len(d) - 1)]

\* data.pop().unwrap_or(0): Vec::pop removes and returns the last element,
\* None on an empty vector
PopOrZero(d) ==
  IF Len(d) = 0
    THEN [val |-> 0, rest |-> << >>]
    ELSE [val |-> d[Len(d)], rest |-> SubSeq(d, 1, Len(d) - 1)]

\* the test of line 99 inverted
MessageTypeInverted(q) ==
  IF BitAnd(128, q) = 128 THEN "Query" ELSE "Response"

\* if ((0x80 & q_opcd_a_t_r) == 0x80) { Response } else { Query }
MessageTypeOf(q) ==
  IF BitAnd(128, q) = 128 THEN "Response" ELSE "Query"

\* ((0x78 & q_opcd_a_t_r) >> 3).into()
OpCodeOf(q) == OpCodeFrom(Shr(BitAnd(120, q), 3))

\* (0x4 & q_opcd_a_t_r) == 0x4
AuthoritativeOf(q) == BitAnd(4, q) = 4

\* (0x2 & q_opcd_a_t_r) == 0x2
TruncationOf(q) == BitAnd(2, q) = 2

\* (0x1 & q_opcd_a_t_r) == 0x1
RecursionDesiredOf(q) == BitAnd(1, q) = 1

\* (0x80 & r_zzz_rcod) == 0x80
RecursionAvailableOf(r) == BitAnd(128, r) = 128

\* (0x7 & r_zzz_rcod).into()
ResponseCodeOf(r) == ResponseCodeFrom(BitAnd(7, r))

\* the Header literal of lines 115-119
MkHeader(i, mt, op, aa, tc, rd, ra, rc, qd, an, ns, ar) ==
  [id |-> i, message_type |-> mt, op_code |-> op, authoritative |-> aa,
   truncation |-> tc, recursion_desired |-> rd, recursion_available |-> ra,
   response_code |-> rc, question_count |-> qd, answer_count |-> an,
   name_server_count |-> ns, additional_count |-> ar]

\* Header::parse as a function of the buffer: the Header it returns and the
\* buffer it leaves behind
ParseFn(d) ==
  LET r1 == parse_u16(d)
      r2 == PopOrZero(r1.rest)
      r3 == PopOrZero(r2.rest)
      r4 == parse_u16(r3.rest)
      r5 == parse_u16(r4.rest)
      r6 == parse_u16(r5.rest)
      r7 == parse_u16(r6.rest)
  IN  [hdr |-> MkHeader(r1.val, MessageTypeOf(r2.val), OpCodeOf(r2.val),
                        AuthoritativeOf(r2.val), TruncationOf(r2.val),
                        RecursionDesiredOf(r2.val),
                        RecursionAvailableOf(r3.val), ResponseCodeOf(r3.val),
                        r4.val, r5.val, r6.val, r7.val),
       rest |-> r7.rest]

ParseHeader(d) == ParseFn(d).hdr

(* ------------------------------ encode --------------------------------- *)

\* encode(header) -> 12 bytes, section 4.3 of the specification
encode(h) ==
  LET flags1 == BitOr(BitOr(BitOr(IF h.message_type = "Response" THEN 128 ELSE 0,
                                  BitAnd(Shl8(OpCodeTo(h.op_code), 3), 120)),
                            BitOr(IF h.authoritative THEN 4 ELSE 0,
                                  IF h.truncation THEN 2 ELSE 0)),
                      IF h.recursion_desired THEN 1 ELSE 0)
      flags2 == BitOr(IF h.recursion_available THEN 128 ELSE 0,
                      BitAnd(ResponseCodeTo(h.response_code), 15))
  IN  << h.id \div 256, h.id % 256, flags1, flags2,
         h.question_count \div 256, h.question_count % 256,
         h.answer_count \div 256, h.answer_count % 256,
         h.name_server_count \div 256, h.name_server_count % 256,
         h.additional_count \div 256, h.additional_count % 256 >>

(* ------------------------------ inputs --------------------------------- *)

NoHeader == [none |-> TRUE]

\* a buffer whose bytes are pairwise different, so that a byte taken from
\* the wrong offset shows
Distinct(n) == [i \in 1 .. n |-> (37 * i + 11) % 256]

Zeros(n) == [i \in 1 .. n |-> 0]

Patch(b, i, v) == [b EXCEPT ![i] = v]

ExampleVector == << 18, 52, 129, 128, 0, 1, 0, 2, 0, 0, 0, 0 >>

\* the buffers handed to parse: every length up to MaxLen, every value of
\* every single byte over an all-zero and an all-different background
IsInput(b) ==
  \/ b = << >>
  \/ b = ExampleVector
  \/ \E n \in 1 .. MaxLen, i \in 1 .. MaxLen, v \in ByteVals :
        /\ i <= n
        /\ \/ b = Patch(Distinct(n), i, v)
           \/ b = Patch(Zeros(n), i, v)

\* the Header values handed to encode: reserved bits zero, codes in 0..15
Headers ==
  { MkHeader(i, mt, OpCodeFrom(op), aa, tc, rd, ra, ResponseCodeFrom(rc),
             qd, an, 0, an)
    : i \in {0, 4660}, mt \in {"Query", "Response"}, op \in {0, 2, 7, 15},
      aa \in BOOLEAN, tc \in BOOLEAN, rd \in BOOLEAN, ra \in BOOLEAN,
      rc \in {0, 5, 8, 15}, qd \in {0, 258}, an \in {0, 772} }

(* ------------------------------- state --------------------------------- *)

VARIABLES
  pc,            \* position in Header::parse
  src,           \* the Header that was encoded into the buffer, or NoHeader
  input,         \* the buffer as it was when parse was called
  data,          \* the buffer (`data: &mut Vec<u8>`)
  rem,           \* offsets (1-based) into input of the bytes still in data
  consumed,      \* offsets into input of the bytes removed, in removal order
  id, q_opcd_a_t_r, message_type, op_code, authoritative, truncation,
  recursion_desired, r_zzz_rcod, recursion_available, response_code,
  question_count, answer_count, name_server_count, additional_count,
  header         \* the value returned, NoHeader before the return

locals == << id, q_opcd_a_t_r, message_type, op_code, authoritative,
             truncation, recursion_desired, r_zzz_rcod, recursion_available,
             response_code, question_count, answer_count, name_server_count,
             additional_count >>

vars == << pc, src, input, data, rem, consumed, locals, header >>

\* the offsets a read removed: those of before that are not left after
Taken(before, after) ==
  LET gone == Len(before) - Len(after)
  IN  IF gone = 0 THEN << >>
      ELSE IF SubSeq(before, gone + 1, Len(before)) = after
        THEN SubSeq(before, 1, gone)
        ELSE SubSeq(before, Len(after) + 1, Len(before))

LocalsInit ==
  /\ id = 0 /\ q_opcd_a_t_r = 0 /\ message_type = "Query"
  /\ op_code = OpCodeFrom(0) /\ authoritative = FALSE /\ truncation = FALSE
  /\ recursion_desired = FALSE /\ r_zzz_rcod = 0
  /\ recursion_available = FALSE /\ response_code = ResponseCodeFrom(0)
  /\ question_count = 0 /\ answer_count = 0 /\ name_server_count = 0
  /\ additional_count = 0

\* parse is called on a received buffer
InitDecode ==
  /\ pc = "id"
  /\ src = NoHeader
  /\ IsInput(input)
  /\ data = input
  /\ rem = [i \in 1 .. Len(input) |-> i]

\* a Header is about to be encoded and the result decoded
InitEncode ==
  /\ pc = "encode"
  /\ src \in Headers
  /\ input = << >>
  /\ data = << >>
  /\ rem = << >>

Init ==
  /\ InitDecode \/ InitEncode
  /\ consumed = << >>
  /\ LocalsInit
  /\ header = NoHeader

(* ------------------------------ actions -------------------------------- *)

Encode ==
  /\ pc = "encode"
  /\ input' = encode(src)
  /\ data' = input'
  /\ rem' = [i \in 1 .. Len(input') |-> i]
  /\ pc' = "id"
  /\ UNCHANGED << src, consumed, locals, header >>

\* the effect of a 16-bit read on the buffer
ReadU16 ==
  /\ data' = parse_u16(data).rest
  /\ rem' = parse_u16(rem).rest
  /\ consumed' = consumed \o Taken(rem, rem')

\* the effect of a pop on the buffer
ReadU8 ==
  /\ data' = PopOrZero(data).rest
  /\ rem' = PopOrZero(rem).rest
  /\ consumed' = consumed \o Taken(rem, rem')

\* let id = util::parse_u16(data);
ReadId ==
  /\ pc = "id"
  /\ id' = parse_u16(data).val
  /\ ReadU16
  /\ pc' = "flags1"
  /\ UNCHANGED << src, input, header, q_opcd_a_t_r, message_type, op_code,
                  authoritative, truncation, recursion_desired, r_zzz_rcod,
                  recursion_available, response_code, question_count,
                  answer_count, name_server_count, additional_count >>

\* let q_opcd_a_t_r = data.pop().unwrap_or(0); ... recursion_desired
ReadFlags1 ==
  /\ pc = "flags1"
  /\ q_opcd_a_t_r' = PopOrZero(data).val
  /\ ReadU8
  /\ message_type' = MessageTypeOf(q_opcd_a_t_r')
  /\ op_code' = OpCodeOf(q_opcd_a_t_r')
  /\ authoritative' = AuthoritativeOf(q_opcd_a_t_r')
  /\ truncation' = TruncationOf(q_opcd_a_t_r')
  /\ recursion_desired' = RecursionDesiredOf(q_opcd_a_t_r')
  /\ pc' = "flags2"
  /\ UNCHANGED << src, input, header, id, r_zzz_rcod, recursion_available,
                  response_code, question_count, answer_count,
                  name_server_count, additional_count >>

\* let r_zzz_rcod = data.pop().unwrap_or(0); ... response_code
ReadFlags2 ==
  /\ pc = "flags2"
  /\ r_zzz_rcod' = PopOrZero(data).val
  /\ ReadU8
  /\ recursion_available' = RecursionAvailableOf(r_zzz_rcod')
  /\ response_code' = ResponseCodeOf(r_zzz_rcod')
  /\ pc' = "qd"
  /\ UNCHANGED << src, input, header, id, q_opcd_a_t_r, message_type, op_code,
                  authoritative, truncation, recursion_desired,
                  question_count, answer_count, name_server_count,
                  additional_count >>

\* let question_count = util::parse_u16(data);
ReadQuestionCount ==
  /\ pc = "qd"
  /\ question_count' = parse_u16(data).val
  /\ ReadU16
  /\ pc' = "an"
  /\ UNCHANGED << src, input, header, id, q_opcd_a_t_r, message_type, op_code,
                  authoritative, truncation, recursion_desired, r_zzz_rcod,
                  recursion_available, response_code, answer_count,
                  name_server_count, additional_count >>

\* let answer_count = util::parse_u16(data);
ReadAnswerCount ==
  /\ pc = "an"
  /\ answer_count' = parse_u16(data).val
  /\ ReadU16
  /\ pc' = "ns"
  /\ UNCHANGED << src, input, header, id, q_opcd_a_t_r, message_type, op_code,
                  authoritative, truncation, recursion_desired, r_zzz_rcod,
                  recursion_available, response_code, question_count,
                  name_server_count, additional_count >>

\* let name_server_count = util::parse_u16(data);
ReadNameServerCount ==
  /\ pc = "ns"
  /\ name_server_count' = parse_u16(data).val
  /\ ReadU16
  /\ pc' = "ar"
  /\ UNCHANGED << src, input, header, id, q_opcd_a_t_r, message_type, op_code,
                  authoritative, truncation, recursion_desired, r_zzz_rcod,
                  recursion_available, response_code, question_count,
                  answer_count, additional_count >>

\* let additional_count = util::parse_u16(data);
ReadAdditionalCount ==
  /\ pc = "ar"
  /\ additional_count' = parse_u16(data).val
  /\ ReadU16
  /\ pc' = "ret"
  /\ UNCHANGED << src, input, header, id, q_opcd_a_t_r, message_type, op_code,
                  authoritative, truncation, recursion_desired, r_zzz_rcod,
                  recursion_available, response_code, question_count,
                  answer_count, name_server_count >>

\* Header { id: id, ... additional_count: additional_count }
Return ==
  /\ pc = "ret"
  /\ header' = MkHeader(id, message_type, op_code, authoritative, truncation,
                        recursion_desired, recursion_available, response_code,
                        question_count, answer_count, name_server_count,
                        additional_count)
  /\ pc' = "done"
  /\ UNCHANGED << src, input, data, rem, consumed, locals >>

Next ==
  \/ Encode
  \/ ReadId
  \/ ReadFlags1
  \/ ReadFlags2
  \/ ReadQuestionCount
  \/ ReadAnswerCount
  \/ ReadNameServerCount
  \/ ReadAdditionalCount
  \/ Return

Spec == Init /\ [][Next]_vars

(* ----------------------------- sanity ---------------------------------- *)

TypeOK ==
  /\ pc \in {"encode", "id", "flags1", "flags2", "qd", "an", "ns", "ar",
             "ret", "done"}
  /\ Len(data) = Len(rem)
  /\ \A k \in 1 .. Len(rem) : data[k] = input[rem[k]]
  /\ Len(consumed) + Len(rem) = Len(input)
  /\ pc = "done" => header = ParseHeader(input) /\ data = ParseFn(input).rest

(* ------------------------------ claims --------------------------------- *)

Done == pc = "done"

\* parse was called on a received buffer (not on the output of encode)
Received == src = NoHeader

\* bit m (a power of two) of byte x is set
BitSet(x, m) == (x \div m) % 2 = 1

\* the big-endian 16-bit value at 0-based offsets k, k+1 of b
U16At(b, k) == b[k + 1] * 256 + b[k + 2]

FieldNames ==
  {"id", "message_type", "op_code", "authoritative", "truncation",
   "recursion_desired", "recursion_available", "response_code",
   "question_count", "answer_count", "name_server_count", "additional_count"}

\* the fields in which two Headers differ
DiffFields(h1, h2) == { f \in FieldNames : h1[f] # h2[f] }

\* C1: for every buffer of at least 12 bytes parse returns id = b[0]*256+b[1],
\* message_type = Response iff bit 0x80 of b[2], op_code = the variant for
\* (b[2] & 0x78) >> 3, AA, TC, RD = bits 0x04, 0x02, 0x01 of b[2], RA = bit
\* 0x80 of b[3], and the four counts = the big-endian values at offsets 4-5,
\* 6-7, 8-9, 10-11; the example vector decodes to id 0x1234, Response,
\* op_code 0, RD and RA set, response code 0, qd = 1, an = 2, ns = ar = 0.
C1_WireLayout ==
  (Done /\ Received /\ Len(input) >= 12) =>
    /\ header.id = U16At(input, 0)
    /\ header.message_type = (IF BitSet(input[3], 128) THEN "Response" ELSE "Query")
    /\ header.op_code = OpCodeFrom((input[3] \div 8) % 16)
    /\ header.authoritative = BitSet(input[3], 4)
    /\ header.truncation = BitSet(input[3], 2)
    /\ header.recursion_desired = BitSet(input[3], 1)
    /\ header.recursion_available = BitSet(input[4], 128)
    /\ header.question_count = U16At(input, 4)
    /\ header.answer_count = U16At(input, 6)
    /\ header.name_server_count = U16At(input, 8)
    /\ header.additional_count = U16At(input, 10)
    /\ (input = ExampleVector =>
          header = MkHeader(4660, "Response", OpCodeFrom(0), FALSE, FALSE, TRUE,
                            TRUE, ResponseCodeFrom(0), 1, 2, 0, 0))

\* C2: the response code is decoded from the full 4-bit RCODE field: for
\* every value f of the second flags byte read by parse, the decoded
\* response_code is the variant for f & 0x0F.
C2_FourBitRcode ==
  Done => header.response_code = ResponseCodeFrom(r_zzz_rcod % 16)

\* C3: decoding the 12 bytes produced by encode(h) yields a Header equal to
\* h field by field.
C3_RoundTrip ==
  (Done /\ ~Received) => header = src

ZeroHeader ==
  MkHeader(0, "Query", OpCodeFrom(0), FALSE, FALSE, FALSE, FALSE,
           ResponseCodeFrom(0), 0, 0, 0, 0)

\* C4: parse on an empty buffer returns a Header with id 0, Query, all
\* flags false, op_code and response_code the variants for code 0 and all
\* four counts 0.
C4_EmptyBuffer ==
  (Done /\ Received /\ input = << >>) => header = ZeroHeader

C4_Witness ==
  Done /\ Received /\ input = << >> /\ header # NoHeader /\ consumed = << >>

FlagBits ==
  { [byte |-> 3, mask |-> 128, field |-> "message_type"],
    [byte |-> 3, mask |-> 64, field |-> "op_code"],
    [byte |-> 3, mask |-> 32, field |-> "op_code"],
    [byte |-> 3, mask |-> 16, field |-> "op_code"],
    [byte |-> 3, mask |-> 8, field |-> "op_code"],
    [byte |-> 3, mask |-> 4, field |-> "authoritative"],
    [byte |-> 3, mask |-> 2, field |-> "truncation"],
    [byte |-> 3, mask |-> 1, field |-> "recursion_desired"],
    [byte |-> 4, mask |-> 128, field |-> "recursion_available"],
    [byte |-> 4, mask |-> 8, field |-> "response_code"],
    [byte |-> 4, mask |-> 4, field |-> "response_code"],
    [byte |-> 4, mask |-> 2, field |-> "response_code"],
    [byte |-> 4, mask |-> 1, field |-> "response_code"] }

Toggle(b, fb) == [b EXCEPT ![fb.byte] = BitXor(b[fb.byte], fb.mask)]

\* C6: for every 12-byte buffer and every flag bit of bytes 2 and 3, the
\* Headers decoded from the buffer and from the buffer with that bit toggled
\* differ in exactly the field the bit belongs to.
C6_BitIsolation ==
  (Done /\ Received /\ Len(input) = 12) =>
    \A fb \in FlagBits :
      DiffFields(header, ParseHeader(Toggle(input, fb))) = {fb.field}

\* C7: the decoded Header depends only on the first 12 bytes: a buffer of
\* at least 12 bytes decodes to the same Header as its first 12 bytes alone.
C7_First12Only ==
  (Done /\ Received /\ Len(input) >= 12) =>
    header = ParseHeader(SubSeq(input, 1, 12))

\* b with the three reserved bits of byte 3 (0-based) replaced by z
SetZ(b, z) == [b EXCEPT ![4] = (b[4] \div 128) * 128 + z * 16 + (b[4] % 16)]

\* C8: two 12-byte buffers that differ only in bits 0x40, 0x20, 0x10 of the
\* second flags byte decode to equal Headers.
C8_ReservedIgnored ==
  (Done /\ Received /\ Len(input) = 12) =>
    \A z \in 0 .. 7 : header = ParseHeader(SetZ(input, z))

\* C9: at every step of parse the bytes consumed so far are exactly a
\* prefix of the original byte sequence, taken in order.
C9_ForwardCursor ==
  \A k \in 1 .. Len(consumed) : consumed[k] = k

\* C10: on a buffer of n >= 12 bytes parse leaves the n - 12 bytes that
\* followed the header, unchanged and in order; on a buffer of n < 12 bytes
\* it leaves the buffer empty.
C10_RemovesHeader ==
  (Done /\ Received) =>
    IF Len(input) >= 12
      THEN data = SubSeq(input, 13, Len(input))
      ELSE data = << >>

====
